---- MODULE Spec2Model ----
(***************************************************************************)
(* scripts/plot_results.py: read a CSV of benchmark results, group the     *)
(* rows by algorithm, sort every group by (jobs, machines) and write four  *)
(* line charts.  The model follows main() statement by statement; the      *)
(* helper functions are operators computed the way the code computes them. *)
(*                                                                         *)
(* Text is a sequence of code points ("GA" is <<71, 65>>, "10" is          *)
(* <<49, 48>>), so that int(), float() and the string comparison of        *)
(* sorted() are computed on characters.  A float is the pair [m, e]        *)
(* meaning m / 10^e with no trailing zero in the fraction.                 *)
(***************************************************************************)
EXTENDS Integers, Sequences, FiniteSets, TLC

VARIABLES
    file,       \* the input CSV: [header, lines], cells in column order
    dirExists,  \* whether args.outdir exists on disk
    files,      \* the files under args.outdir: file name -> chart written
    pc,         \* the position of main()
    rows,       \* main's local "rows"
    groups,     \* main's local "groups": [order, part], a dict in insertion order
    events,     \* what this run did to the outside world, in order
    stdout,     \* the lines printed to standard output by this run
    stderr,     \* the diagnostic printed to standard error by this run
    exc,        \* the exception that ended this run, "none" while it runs
    exitCode,   \* the exit status of this run, -1 while it runs
    run,        \* 1 for the first invocation of the script, 2 for the second
    prev        \* what the first invocation ended with, kept for the second

vars == <<file, dirExists, files, pc, rows, groups, events, stdout, stderr,
          exc, exitCode, run, prev>>

\* The longest input file, in data lines.
MaxRows == 3

-----------------------------------------------------------------------------
(* Sequences *)

Front(s) == SubSeq(s, 1, Len(s) - 1)

Last(s) == s[Len(s)]

Range(s) == { s[i] : i \in DOMAIN s }

\* All sequences over S of length at most n.
SeqUpTo(S, n) == UNION { [1..k -> S] : k \in 0..n }

-----------------------------------------------------------------------------
(* Text and number conversion *)

IsDigit(c) == c \in 48..57

RECURSIVE DigitsValue(_)
\* The natural number written by a sequence of digits.
DigitsValue(ds) ==
    IF ds = <<>> THEN 0 ELSE DigitsValue(Front(ds)) * 10 + (Last(ds) - 48)

RECURSIVE Pow10(_)
Pow10(n) == IF n = 0 THEN 1 ELSE 10 * Pow10(n - 1)

RECURSIVE StripZeros(_)
\* A fraction's digits without its trailing zeros.
StripZeros(ds) ==
    IF ds # <<>> /\ Last(ds) = 48 THEN StripZeros(Front(ds)) ELSE ds

\* 43 is "+", 45 is "-", 46 is ".".
HasSign(t) == t # <<>> /\ t[1] \in {43, 45}

Unsigned(t) == IF HasSign(t) THEN Tail(t) ELSE t

SignOf(t) == IF t # <<>> /\ t[1] = 45 THEN -1 ELSE 1

\* int(t) succeeds: an optional sign and one or more digits.  (Surrounding
\* blanks and "_" between digits are not among the inputs.)
IntOk(t) ==
    LET u == Unsigned(t)
    IN  u # <<>> /\ \A i \in DOMAIN u : IsDigit(u[i])

IntValue(t) == SignOf(t) * DigitsValue(Unsigned(t))

DotsOf(u) == { i \in DOMAIN u : u[i] = 46 }

\* float(t) succeeds: an optional sign, digits with at most one ".", and at
\* least one digit.  (Exponents, "inf" and "nan" are not among the inputs.)
FloatOk(t) ==
    LET u == Unsigned(t)
    IN  /\ \A i \in DOMAIN u : IsDigit(u[i]) \/ u[i] = 46
        /\ Cardinality(DotsOf(u)) <= 1
        /\ \E i \in DOMAIN u : IsDigit(u[i])

FloatValue(t) ==
    LET u    == Unsigned(t)
        d    == IF DotsOf(u) = {} THEN Len(u) + 1 ELSE CHOOSE i \in DotsOf(u) : TRUE
        ip   == SubSeq(u, 1, d - 1)
        fp   == StripZeros(SubSeq(u, d + 1, Len(u)))
    IN  [m |-> SignOf(t) * (DigitsValue(ip) * Pow10(Len(fp)) + DigitsValue(fp)),
         e |-> Len(fp)]

RECURSIVE StrLess(_, _)
\* a < b for Python strings: by code point, a proper prefix first.
StrLess(a, b) ==
    IF b = <<>> THEN FALSE
    ELSE IF a = <<>> THEN TRUE
    ELSE IF a[1] # b[1] THEN a[1] < b[1]
    ELSE StrLess(Tail(a), Tail(b))

-----------------------------------------------------------------------------
(* read_results_csv *)

\* The columns main's loader reads, in the order the dict literal evaluates
\* them.
Fields ==
    <<"algo", "jobs", "machines", "runs", "time_mean_ms", "time_std_ms",
      "makespan_best", "makespan_mean", "makespan_std">>

IntFields == {"jobs", "machines", "runs", "makespan_best"}

FloatFields == {"time_mean_ms", "time_std_ms", "makespan_mean", "makespan_std"}

\* csv.DictReader: one dict per data line, keyed by the header's names (the
\* last column of a name wins).  Every data line of the inputs has as many
\* cells as the header has names.
DictRow(header, cells) ==
    [n \in Range(header) |->
        cells[CHOOSE i \in DOMAIN header :
                /\ header[i] = n
                /\ \A j \in DOMAIN header : header[j] = n => j <= i]]

RECURSIVE FirstError(_, _)
\* The exception the dict literal of lines 22-32 raises on the dict d, looking
\* at Fields[i], Fields[i+1], ... in turn; "none" when it raises nothing.
FirstError(d, i) ==
    IF i > Len(Fields) THEN "none"
    ELSE LET n == Fields[i]
         IN  IF n \notin DOMAIN d THEN "KeyError"
             ELSE IF n \in IntFields /\ ~IntOk(d[n]) THEN "ValueError"
             ELSE IF n \in FloatFields /\ ~FloatOk(d[n]) THEN "ValueError"
             ELSE FirstError(d, i + 1)

\* The record appended for a dict on which no conversion fails.
Convert(d) ==
    [algo          |-> d["algo"],
     jobs          |-> IntValue(d["jobs"]),
     machines      |-> IntValue(d["machines"]),
     runs          |-> IntValue(d["runs"]),
     time_mean_ms  |-> FloatValue(d["time_mean_ms"]),
     time_std_ms   |-> FloatValue(d["time_std_ms"]),
     makespan_best |-> IntValue(d["makespan_best"]),
     makespan_mean |-> FloatValue(d["makespan_mean"]),
     makespan_std  |-> FloatValue(d["makespan_std"])]

RECURSIVE ReadLoop(_, _, _)
\* The for loop of read_results_csv over the remaining lines, acc being the
\* list built so far: an exception leaves the function with no list at all.
ReadLoop(header, lines, acc) ==
    IF lines = <<>> THEN [exc |-> "none", rows |-> acc]
    ELSE LET d == DictRow(header, Head(lines))
             e == FirstError(d, 1)
         IN  IF e # "none" THEN [exc |-> e, rows |-> <<>>]
             ELSE ReadLoop(header, Tail(lines), Append(acc, Convert(d)))

RECURSIVE ReadLoopSkipping(_, _, _)
\* ReadLoop with the failing lines skipped instead of raising.
ReadLoopSkipping(header, lines, acc) ==
    IF lines = <<>> THEN [exc |-> "none", rows |-> acc]
    ELSE LET d == DictRow(header, Head(lines))
             e == FirstError(d, 1)
         IN  IF e # "none" THEN ReadLoopSkipping(header, Tail(lines), acc)
             ELSE ReadLoopSkipping(header, Tail(lines), Append(acc, Convert(d)))

ReadResultsCsvSkipping(f) == ReadLoopSkipping(f.header, f.lines, <<>>)

\* ReadResultsCsv with a missing column read as "0" (row.get(name, "0")).
ReadResultsCsvDefaulting(f) ==
    LET full(d) == [n \in Range(Fields) |-> IF n \in DOMAIN d THEN d[n] ELSE <<48>>]
        conv[i \in 0..Len(f.lines)] ==
            IF i = 0 THEN [exc |-> "none", rows |-> <<>>]
            ELSE LET d == full(DictRow(f.header, f.lines[i]))
                     e == FirstError(d, 1)
                 IN  IF conv[i - 1].exc # "none" THEN conv[i - 1]
                     ELSE IF e # "none" THEN [exc |-> e, rows |-> <<>>]
                     ELSE [exc |-> "none", rows |-> Append(conv[i - 1].rows, Convert(d))]
    IN  conv[Len(f.lines)]

ReadResultsCsv(f) == ReadLoop(f.header, f.lines, <<>>)

-----------------------------------------------------------------------------
(* group_by_algo *)

\* The comparison of a sort on jobs alone.
KeyLeqJobsOnly(x, y) == x.jobs <= y.jobs

\* (x["jobs"], x["machines"]) <= (y["jobs"], y["machines"]) as Python
\* compares tuples.
KeyLeq(x, y) ==
    \/ x.jobs < y.jobs
    \/ x.jobs = y.jobs /\ x.machines <= y.machines

RECURSIVE InsertSorted(_, _)
\* x put into the sorted list s behind every element whose key is <= its own.
InsertSorted(s, x) ==
    IF s = <<>> THEN <<x>>
    ELSE IF KeyLeq(Last(s), x) THEN Append(s, x)
    ELSE Append(InsertSorted(Front(s), x), Last(s))

RECURSIVE SortRows(_)
\* list.sort(key = (jobs, machines)): the stable ascending order.
SortRows(s) ==
    IF s = <<>> THEN <<>> ELSE InsertSorted(SortRows(Front(s)), Last(s))

RECURSIVE InsertSortedUnstable(_, _)
\* InsertSorted putting x in front of the elements of equal key.
InsertSortedUnstable(s, x) ==
    IF s = <<>> THEN <<x>>
    ELSE IF KeyLeq(Last(s), x) /\ ~KeyLeq(x, Last(s)) THEN Append(s, x)
    ELSE Append(InsertSortedUnstable(Front(s), x), Last(s))

RECURSIVE SortRowsUnstable(_)
\* An ascending sort that reverses the elements of equal key.
SortRowsUnstable(s) ==
    IF s = <<>> THEN <<>>
    ELSE InsertSortedUnstable(SortRowsUnstable(Front(s)), Last(s))

EmptyGroup == [order |-> <<>>, part |-> [k \in {} |-> <<>>]]

\* g[row["algo"]] = [row]: the list replaced, not extended.
AddRowOverwriting(g, row) ==
    IF row.algo \in DOMAIN g.part
    THEN [g EXCEPT !.part[row.algo] = <<row>>]
    ELSE [order |-> Append(g.order, row.algo),
          part  |-> (row.algo :> <<row>>) @@ g.part]

\* g[row["algo"]].append(row) on a defaultdict(list).
AddRow(g, row) ==
    IF row.algo \in DOMAIN g.part
    THEN [g EXCEPT !.part[row.algo] = Append(@, row)]
    ELSE [order |-> Append(g.order, row.algo),
          part  |-> (row.algo :> <<row>>) @@ g.part]

RECURSIVE Partition(_, _)
\* The first loop of group_by_algo.
Partition(g, rws) ==
    IF rws = <<>> THEN g ELSE Partition(AddRow(g, Head(rws)), Tail(rws))

\* SortGroups with an unstable sort.
SortGroupsUnstable(g) ==
    [order |-> g.order,
     part  |-> [k \in DOMAIN g.part |-> SortRowsUnstable(g.part[k])]]

\* The second loop of group_by_algo.
SortGroups(g) ==
    [order |-> g.order, part |-> [k \in DOMAIN g.part |-> SortRows(g.part[k])]]

\* group_by_algo leaving out the last row.
GroupByAlgoButLast(rws) == SortGroups(Partition(EmptyGroup, Front(rws)))

GroupByAlgo(rws) == SortGroups(Partition(EmptyGroup, rws))

-----------------------------------------------------------------------------
(* plot_lines, plot_runtime_mean_with_std *)

RECURSIVE InsertKey(_, _)
\* The key k put into the ascending list s of keys.
InsertKey(s, k) ==
    IF s = <<>> THEN <<k>>
    ELSE IF StrLess(k, Last(s)) THEN Append(InsertKey(Front(s), k), Last(s))
    ELSE Append(s, k)

RECURSIVE SortKeys(_)
SortKeys(s) == IF s = <<>> THEN <<>> ELSE InsertKey(SortKeys(Front(s)), Last(s))

\* groups.items() as the dict yields them: in insertion order.
UnsortedItems(g) == g.order

\* The keys of sorted(groups.items(), key=lambda kv: kv[0]), in order.
SortedItems(g) == SortKeys(g.order)

\* The column c of a list of records.
Column(rs, c) == [i \in 1..Len(rs) |-> rs[i][c]]

\* The lines plot_lines draws: ax.plot(x, y, label=algo) per algorithm.
PlotLines(g, y_key) ==
    LET ks == SortedItems(g)
    IN  [i \in 1..Len(ks) |->
            [label |-> ks[i],
             x     |-> Column(g.part[ks[i]], "jobs"),
             y     |-> Column(g.part[ks[i]], y_key),
             yerr  |-> <<>>]]

\* The lines plot_runtime_mean_with_std draws: ax.errorbar(x, y, yerr=yerr,
\* label=algo) per algorithm.
PlotRuntimeMeanWithStd(g) ==
    LET ks == SortedItems(g)
    IN  [i \in 1..Len(ks) |->
            [label |-> ks[i],
             x     |-> Column(g.part[ks[i]], "jobs"),
             y     |-> Column(g.part[ks[i]], "time_mean_ms"),
             yerr  |-> Column(g.part[ks[i]], "time_std_ms")]]

-----------------------------------------------------------------------------
(* main *)

\* args.outdir, at its default.
OutDir == "artifacts"

\* os.path.join(args.outdir, name).
Join(dir, name) == <<dir, name>>

P1 == Join(OutDir, "runtime_mean_ms.png")

P2 == Join(OutDir, "makespan_best.png")

P3 == Join(OutDir, "makespan_mean.png")

P4 == Join(OutDir, "makespan_std.png")

\* One entry of the log of what a run did; data is the chart of a "write".
Event(op, path, data) == [op |-> op, path |-> path, data |-> data]

NoPath == <<"", "">>

\* The state of a run that raised e: Python prints the diagnostic to standard
\* error and exits with status 1.
Raise(e) ==
    /\ pc' = "failed"
    /\ exc' = e
    /\ exitCode' = 1
    /\ stderr' = <<e>>

\* rows = read_results_csv(args.inp)
MainRead ==
    /\ pc = "read"
    /\ LET r == ReadResultsCsv(file)
       IN  IF r.exc # "none"
           THEN Raise(r.exc) /\ UNCHANGED rows
           ELSE /\ rows' = r.rows
                /\ pc' = "check"
                /\ UNCHANGED <<exc, exitCode, stderr>>
    /\ UNCHANGED <<file, dirExists, files, groups, events, stdout, run, prev>>

\* MainCheck without the test.
MainCheckNothing ==
    /\ pc = "check"
    /\ pc' = "makedirs"
    /\ UNCHANGED <<file, dirExists, files, rows, groups, events, stdout, stderr,
                   exc, exitCode, run, prev>>

\* if not rows: raise SystemExit(...)
MainCheck ==
    /\ pc = "check"
    /\ IF rows = <<>>
       THEN Raise("SystemExit")
       ELSE pc' = "makedirs" /\ UNCHANGED <<exc, exitCode, stderr>>
    /\ UNCHANGED <<file, dirExists, files, rows, groups, events, stdout, run, prev>>

\* os.makedirs(args.outdir) without exist_ok: FileExistsError on a directory
\* that is there.
MainMakeDirsStrict ==
    /\ pc = "makedirs"
    /\ events' = Append(events, Event("makedirs", NoPath, <<>>))
    /\ IF dirExists
       THEN Raise("FileExistsError") /\ UNCHANGED dirExists
       ELSE /\ dirExists' = TRUE
            /\ pc' = "group"
            /\ UNCHANGED <<exc, exitCode, stderr>>
    /\ UNCHANGED <<file, files, rows, groups, stdout, run, prev>>

\* os.makedirs(args.outdir, exist_ok=True)
MainMakeDirs ==
    /\ pc = "makedirs"
    /\ dirExists' = TRUE
    /\ events' = Append(events, Event("makedirs", NoPath, <<>>))
    /\ pc' = "group"
    /\ UNCHANGED <<file, files, rows, groups, stdout, stderr, exc, exitCode,
                   run, prev>>

\* groups = group_by_algo(rows)
MainGroup ==
    /\ pc = "group"
    /\ groups' = GroupByAlgo(rows)
    /\ events' = Append(events, Event("group", NoPath, <<>>))
    /\ pc' = "plot_runtime"
    /\ UNCHANGED <<file, dirExists, files, rows, stdout, stderr, exc, exitCode,
                   run, prev>>

\* fig.savefig(path) of the chart whose lines are given, then the next
\* statement of main: the file is written (over what was there) when its
\* directory exists, and FileNotFoundError is raised when it does not.
Plot(at, path, lines, next) ==
    /\ pc = at
    /\ IF dirExists
       THEN /\ files' = (path :> lines) @@ files
            /\ events' = Append(events, Event("write", path, lines))
            /\ pc' = next
            /\ UNCHANGED <<exc, exitCode, stderr>>
       ELSE Raise("FileNotFoundError") /\ UNCHANGED <<files, events>>
    /\ UNCHANGED <<file, dirExists, rows, groups, stdout, run, prev>>

\* plot_runtime_mean_with_std(groups, p1)
MainPlotRuntime ==
    Plot("plot_runtime", P1, PlotRuntimeMeanWithStd(groups), "plot_best")

\* plot_lines(groups, p2, ..., "makespan_best")
MainPlotBest ==
    Plot("plot_best", P2, PlotLines(groups, "makespan_best"), "plot_mean")

\* The third chart written to the second chart's path.
MainPlotMeanToP2 ==
    Plot("plot_mean", P2, PlotLines(groups, "makespan_mean"), "plot_std")

\* plot_lines(groups, p3, ..., "makespan_mean")
MainPlotMean ==
    Plot("plot_mean", P3, PlotLines(groups, "makespan_mean"), "plot_std")

\* plot_lines(groups, p4, ..., "makespan_std")
MainPlotStd ==
    Plot("plot_std", P4, PlotLines(groups, "makespan_std"), "print")

\* The banner of line 184.
Banner == "Sohraneno:"

\* The five print calls, then the normal end of the process.
MainPrint ==
    /\ pc = "print"
    /\ stdout' = stdout \o <<<<Banner>>, <<" -", P1>>, <<" -", P2>>,
                               <<" -", P3>>, <<" -", P4>>>>
    /\ events' = Append(events, Event("print", NoPath, <<>>))
    /\ pc' = "done"
    /\ exitCode' = 0
    /\ UNCHANGED <<file, dirExists, files, rows, groups, stderr, exc, run, prev>>

\* The script is started a second time on the same file and the same output
\* directory, after the first invocation has ended.
Rerun ==
    /\ run = 1
    /\ pc \in {"done", "failed"}
    /\ run' = 2
    /\ prev' = [pc |-> pc, exc |-> exc, exitCode |-> exitCode,
                stdout |-> stdout, stderr |-> stderr, events |-> events,
                files |-> files]
    /\ pc' = "read"
    /\ rows' = <<>>
    /\ groups' = EmptyGroup
    /\ events' = <<>>
    /\ stdout' = <<>>
    /\ stderr' = <<>>
    /\ exc' = "none"
    /\ exitCode' = -1
    /\ UNCHANGED <<file, dirExists, files>>

-----------------------------------------------------------------------------
(* The input files *)

GA == <<71, 65>>

SA == <<83, 65>>

\* The cells of one data line by column name: algorithm a, the texts j and m
\* of jobs and machines, and one of two sets of measurements.
MkRow(a, j, m, p) ==
    [n \in Range(Fields) |->
        CASE n = "algo"          -> a
          [] n = "jobs"          -> j
          [] n = "machines"      -> m
          [] n = "runs"          -> <<53>>                                  \* 5
          [] n = "time_mean_ms"  -> IF p = 1 THEN <<49, 46, 53>>            \* 1.5
                                             ELSE <<50, 46, 50, 53>>        \* 2.25
          [] n = "time_std_ms"   -> IF p = 1 THEN <<48, 46, 53>>            \* 0.5
                                             ELSE <<48, 46, 49>>            \* 0.1
          [] n = "makespan_best" -> IF p = 1 THEN <<49, 48, 48>>            \* 100
                                             ELSE <<57, 48>>                \* 90
          [] n = "makespan_mean" -> IF p = 1 THEN <<49, 48, 48, 46, 48>>    \* 100.0
                                             ELSE <<57, 53, 46, 53>>        \* 95.5
          [] n = "makespan_std"  -> IF p = 1 THEN <<50, 46, 53, 48>>        \* 2.50
                                             ELSE <<51>>]                   \* 3

\* Data lines every cell of which converts: jobs 9 and 10 (in the other order
\* as texts), machines 3, 5 and 7, and two lines of GA that differ in the
\* measurements only.
GoodRows ==
    { MkRow(GA, <<49, 48>>, <<53>>, 1), MkRow(GA, <<49, 48>>, <<53>>, 2),
      MkRow(GA, <<57>>, <<53>>, 1),     MkRow(GA, <<49, 48>>, <<51>>, 2),
      MkRow(SA, <<49, 48>>, <<53>>, 1), MkRow(SA, <<57>>, <<55>>, 2) }

\* Data lines with a cell that does not convert: makespan_best = "abc", and
\* jobs = "1.5".
BadRows ==
    { [MkRow(GA, <<49, 48>>, <<53>>, 1) EXCEPT !["makespan_best"] = <<97, 98, 99>>],
      MkRow(SA, <<49, 46, 53>>, <<53>>, 2) }

RowPool == GoodRows \cup BadRows

Reverse(s) == [i \in 1..Len(s) |-> s[Len(s) + 1 - i]]

HeaderWithout(n) == SelectSeq(Fields, LAMBDA x : x # n)

\* The headers: the nine names in the order of the spec, in the reverse
\* order, and with one name missing.
Headers ==
    {Fields, Reverse(Fields)}
        \cup { HeaderWithout(n) : n \in {"algo", "makespan_best", "makespan_std"} }

\* The data line of a file with this header that holds the cells of r.
Line(header, r) == [i \in 1..Len(header) |-> r[header[i]]]

NoPrev ==
    [pc |-> "none", exc |-> "none", exitCode |-> -1, stdout |-> <<>>,
     stderr |-> <<>>, events |-> <<>>, files |-> <<>>]

Init ==
    /\ \E h \in Headers, rs \in SeqUpTo(RowPool, MaxRows) :
          file = [header |-> h, lines |-> [i \in 1..Len(rs) |-> Line(h, rs[i])]]
    /\ dirExists \in BOOLEAN
    /\ files = <<>>
    /\ pc = "read"
    /\ rows = <<>>
    /\ groups = EmptyGroup
    /\ events = <<>>
    /\ stdout = <<>>
    /\ stderr = <<>>
    /\ exc = "none"
    /\ exitCode = -1
    /\ run = 1
    /\ prev = NoPrev

Next ==
    \/ MainRead
    \/ MainCheck
    \/ MainMakeDirs
    \/ MainGroup
    \/ MainPlotRuntime
    \/ MainPlotBest
    \/ MainPlotMean
    \/ MainPlotStd
    \/ MainPrint
    \/ Rerun

Spec == Init /\ [][Next]_vars

\* group_by_algo applied to any list of records, the empty one included.
InitGroup ==
    /\ \E rs \in SeqUpTo(GoodRows, MaxRows) :
          rows = [i \in 1..Len(rs) |-> Convert(rs[i])]
    /\ file = [header |-> Fields, lines |-> <<>>]
    /\ dirExists = FALSE
    /\ files = <<>>
    /\ pc = "group"
    /\ groups = EmptyGroup
    /\ events = <<>>
    /\ stdout = <<>>
    /\ stderr = <<>>
    /\ exc = "none"
    /\ exitCode = -1
    /\ run = 1
    /\ prev = NoPrev

SpecGroup == InitGroup /\ [][MainGroup]_vars

-----------------------------------------------------------------------------
(* What the properties speak of *)

\* group_by_algo has returned in this run: groups is its result on rows.
Grouped == \E i \in DOMAIN events : events[i].op = "group"

\* The chart files this run has written, in order.
Writes == SelectSeq(events, LAMBDA e : e.op = "write")

\* How often r occurs in the list s.
Count(s, r) == Cardinality({ i \in DOMAIN s : s[i] = r })

RECURSIVE CountIn(_, _, _)
\* How often r occurs in the partitions of the keys K.
CountIn(part, K, r) ==
    IF K = {} THEN 0
    ELSE LET k == CHOOSE x \in K : TRUE
         IN  Count(part[k], r) + CountIn(part, K \ {k}, r)

Keys == DOMAIN groups.part

SameKey(r, q) == r.jobs = q.jobs /\ r.machines = q.machines

\* The records of algorithm k in the input of group_by_algo, in input order.
InputOf(k) == SelectSeq(rows, LAMBDA r : r.algo = k)

\* The header lacks one of the nine names.
MissingField == ~(Range(Fields) \subseteq Range(file.header))

\* The cell of data line i under column c does not convert to the column's type.
BadCellAt(i, c) ==
    \/ file.header[c] \in IntFields /\ ~IntOk(file.lines[i][c])
    \/ file.header[c] \in FloatFields /\ ~FloatOk(file.lines[i][c])

BadCell == \E i \in DOMAIN file.lines, c \in DOMAIN file.header : BadCellAt(i, c)

\* The files of the output directory as this run found them.
FilesAtStart == IF run = 1 THEN <<>> ELSE prev.files

\* Nothing of the output side has happened in this run.
NothingWritten ==
    /\ events = <<>>
    /\ groups = EmptyGroup
    /\ files = FilesAtStart

-----------------------------------------------------------------------------
(* Properties *)

\* C1. Round-trip grouping: for a non-empty input of group_by_algo, every
\* record occurs in the partitions of the Group, taken together, exactly as
\* often as it occurs in the input: none is lost and none is duplicated.
C1_RoundTrip ==
    (Grouped /\ rows # <<>>) =>
        \A r \in Range(rows) \cup UNION { Range(groups.part[k]) : k \in Keys } :
            CountIn(groups.part, Keys, r) = Count(rows, r)

\* A Group of two algorithms made from three rows, one of them given twice.
C1_Witness ==
    /\ Grouped
    /\ Len(rows) = 3
    /\ Cardinality(Keys) = 2
    /\ \E r \in Range(rows) : Count(rows, r) = 2

\* C2. Sort invariant: in every partition of the Group, a record that comes
\* before another has a (jobs, machines) pair that is lexicographically not
\* greater.
C2_Sorted ==
    Grouped =>
        \A k \in Keys : \A i, j \in DOMAIN groups.part[k] :
            i < j =>
                LET r1 == groups.part[k][i]
                    r2 == groups.part[k][j]
                IN  \/ r1.jobs < r2.jobs
                    \/ r1.jobs = r2.jobs /\ r1.machines <= r2.machines

\* A partition that the sort had to reorder by machines among equal jobs, and
\* a partition ordered by jobs 9 before jobs 10.
C2_Witness ==
    /\ Grouped
    /\ \E k \in Keys :
          /\ groups.part[k] # InputOf(k)
          /\ \E i \in DOMAIN groups.part[k] :
                /\ i + 1 \in DOMAIN groups.part[k]
                /\ groups.part[k][i].jobs = groups.part[k][i + 1].jobs
                /\ groups.part[k][i].machines < groups.part[k][i + 1].machines
    /\ \E k \in Keys : \E i \in DOMAIN groups.part[k] :
          /\ i + 1 \in DOMAIN groups.part[k]
          /\ groups.part[k][i].jobs = 9
          /\ groups.part[k][i + 1].jobs = 10

\* C3. Stability: the records of one algorithm with one (jobs, machines) pair
\* are all in the algorithm's partition, in the order they have in the input,
\* and every chart written has as many points on the algorithm's line as the
\* input has records of the algorithm.
C3_Stable ==
    Grouped =>
        /\ \A k \in Keys \cup { r.algo : r \in Range(rows) } :
              /\ k \in Keys
              /\ \A q \in Range(InputOf(k)) \cup Range(groups.part[k]) :
                    SelectSeq(groups.part[k], LAMBDA r : SameKey(r, q))
                        = SelectSeq(InputOf(k), LAMBDA r : SameKey(r, q))
        /\ \A w \in Range(Writes) :
              /\ { w.data[i].label : i \in DOMAIN w.data } = { r.algo : r \in Range(rows) }
              /\ \A i \in DOMAIN w.data :
                    /\ Len(w.data[i].x) = Len(InputOf(w.data[i].label))
                    /\ Len(w.data[i].y) = Len(InputOf(w.data[i].label))

\* Two different records of one algorithm with the same (jobs, machines), all
\* four charts written.
C3_Witness ==
    /\ pc = "done"
    /\ \E k \in Keys : \E i, j \in DOMAIN groups.part[k] :
          /\ i < j
          /\ SameKey(groups.part[k][i], groups.part[k][j])
          /\ groups.part[k][i] # groups.part[k][j]

\* C4. Empty-input rejection: on a file with no data line, main ends with
\* SystemExit and a non-zero status before the output directory is made,
\* before grouping and before any chart is written, and prints nothing to
\* standard output.
C4_EmptyRejected ==
    /\ [](file.lines = <<>> =>
            /\ pc \in {"read", "check", "failed"}
            /\ stdout = <<>>
            /\ NothingWritten
            /\ pc = "failed" => exc = "SystemExit" /\ exitCode > 0)
    /\ [][file.lines = <<>> => dirExists' = dirExists /\ files' = files]_vars

\* The run on a header-only file has ended.
C4_Witness ==
    /\ file.lines = <<>>
    /\ file.header = Fields
    /\ pc = "failed"
    /\ ~dirExists

\* C5. All-or-nothing load: with a cell that does not convert in any data
\* line, read_results_csv returns no record and the process ends with a
\* non-zero status before the output directory is made and before any chart
\* is written.
C5_AllOrNothing ==
    /\ [](BadCell =>
            /\ pc \in {"read", "failed"}
            /\ rows = <<>>
            /\ stdout = <<>>
            /\ NothingWritten
            /\ pc = "failed" => exc \in {"ValueError", "KeyError"} /\ exitCode > 0)
    /\ [][BadCell => dirExists' = dirExists /\ files' = files]_vars

\* The run on a three-line file whose last line alone has makespan_best =
\* "abc" has ended, the directory still missing.
C5_Witness ==
    /\ file.header = Fields
    /\ Len(file.lines) = 3
    /\ file.lines[3][7] = <<97, 98, 99>>
    /\ \A i \in 1..2 : \A c \in DOMAIN file.header : ~BadCellAt(i, c)
    /\ pc = "failed"
    /\ exc = "ValueError"
    /\ ~dirExists

\* C6 as stated: with a name missing from the header, the load ends in an
\* exception and returns no list, however many data lines follow.
C6_MissingFieldAlwaysRaises ==
    (MissingField /\ pc # "read") =>
        pc = "failed" /\ exc \in {"KeyError", "ValueError"}

\* C6, amended: with a name missing from the header and at least one data
\* line, the load ends in an exception and returns no list; with no data line
\* the load returns the empty list, and main ends with SystemExit.
C6_MissingFieldRaisesOnData ==
    (MissingField /\ pc # "read") =>
        IF file.lines # <<>>
        THEN pc = "failed" /\ exc \in {"KeyError", "ValueError"} /\ rows = <<>>
        ELSE rows = <<>> /\ pc \in {"check", "failed"}
                /\ (pc = "failed" => exc = "SystemExit")

\* The load of a file with data lines and no makespan_std column has raised
\* KeyError.
C6_Witness ==
    /\ "makespan_std" \notin Range(file.header)
    /\ Len(file.lines) >= 2
    /\ pc = "failed"
    /\ exc = "KeyError"

\* The text a is lexicographically before the text b: at the first place
\* where they differ a has the smaller code point, or a ends there.
LexBefore(a, b) ==
    \E n \in 1..Len(b) :
        /\ \A i \in 1..(n - 1) : i <= Len(a) /\ a[i] = b[i]
        /\ n > Len(a) \/ a[n] < b[n]

\* The metric on the y axis of the chart written to path.
MetricOf(path) ==
    CASE path[2] = "runtime_mean_ms.png" -> "time_mean_ms"
      [] path[2] = "makespan_best.png"   -> "makespan_best"
      [] path[2] = "makespan_mean.png"   -> "makespan_mean"
      [] path[2] = "makespan_std.png"    -> "makespan_std"

\* The four chart paths in the order main writes them.
ChartPaths ==
    << <<"artifacts", "runtime_mean_ms.png">>, <<"artifacts", "makespan_best.png">>,
       <<"artifacts", "makespan_mean.png">>,   <<"artifacts", "makespan_std.png">> >>

\* C7. Orchestration order: the output directory exists, made or found by
\* makedirs, before any chart is written, and makedirs changes nothing when
\* the directory is there; a successful run writes exactly the four charts
\* runtime_mean_ms, makespan_best, makespan_mean, makespan_std in this order
\* under the output directory; and the four paths are printed, in the same
\* order, only after all four are written.
C7_Order ==
    /\ [](/\ \A i \in DOMAIN Writes : Writes[i].path = ChartPaths[i]
          /\ \A i \in DOMAIN events :
                events[i].op = "write" =>
                    /\ dirExists
                    /\ \E j \in 1..(i - 1) : events[j].op = "makedirs"
                    /\ events[i].path \in DOMAIN files
                    /\ files[events[i].path] = events[i].data
          /\ stdout # <<>> =>
                /\ Len(Writes) = 4
                /\ Last(events).op = "print"
                /\ Len(stdout) = 5
                /\ \A i \in 1..4 : stdout[i + 1] = <<" -", ChartPaths[i]>>
          /\ pc = "done" =>
                /\ Len(Writes) = 4
                /\ stdout # <<>>
                /\ exitCode = 0)
    /\ [][pc = "makedirs" => (dirExists' /\ files' = files /\ pc' = "group")]_vars

\* A successful run that found the output directory in place.
C7_Witness ==
    /\ pc = "done"
    /\ run = 2
    /\ Len(stdout) = 5
    /\ DOMAIN files = Range(ChartPaths)

\* C8. Plotted data: every chart written has one line per algorithm of the
\* Group, the labels in ascending order; the i-th point of a line is (jobs,
\* metric) of the i-th record of the algorithm's partition; and in the
\* runtime chart the i-th error bar is that record's time_std_ms around its
\* time_mean_ms.  The other charts have no error bars.
C8_PlottedData ==
    \A w \in Range(Writes) :
        /\ Len(w.data) = Cardinality(Keys)
        /\ \A i, j \in DOMAIN w.data :
              i < j => LexBefore(w.data[i].label, w.data[j].label)
        /\ \A i \in DOMAIN w.data :
              LET ln == w.data[i]
              IN  /\ ln.label \in Keys
                  /\ Len(ln.x) = Len(groups.part[ln.label])
                  /\ Len(ln.y) = Len(groups.part[ln.label])
                  /\ \A n \in DOMAIN groups.part[ln.label] :
                        /\ ln.x[n] = groups.part[ln.label][n].jobs
                        /\ ln.y[n] = groups.part[ln.label][n][MetricOf(w.path)]
                  /\ IF w.path[2] = "runtime_mean_ms.png"
                     THEN /\ Len(ln.yerr) = Len(groups.part[ln.label])
                          /\ \A n \in DOMAIN ln.yerr :
                                /\ ln.yerr[n] = groups.part[ln.label][n].time_std_ms
                                /\ ln.y[n] = groups.part[ln.label][n].time_mean_ms
                     ELSE ln.yerr = <<>>

\* Four charts of two algorithms, SA first in the input, one of the lines
\* with two points.
C8_Witness ==
    /\ pc = "done"
    /\ groups.order = <<SA, GA>>
    /\ Len(Writes) = 4
    /\ \E k \in Keys : Len(groups.part[k]) = 2

C10_WellFormed ==
    Grouped =>
        /\ Keys = { r.algo : r \in Range(rows) }
        /\ Range(groups.order) = Keys
        /\ \A k \in Keys :
              /\ groups.part[k] # <<>>
              /\ \A i \in DOMAIN groups.part[k] : groups.part[k][i].algo = k
        /\ rows = <<>> => Keys = {} /\ groups.order = <<>>

\* group_by_algo has returned on three rows of two algorithms.
C10_Witness ==
    /\ Grouped
    /\ Len(rows) = 3
    /\ Keys = {GA, SA}

\* group_by_algo has returned on the empty list.
C10_WitnessEmpty == Grouped /\ rows = <<>> /\ Keys = {}

====
